---- MODULE Spec2Model ----
(***************************************************************************)
(* Model of the Farside ETF flow scrapers (btc_farside_to_csv.py,          *)
(* eth_farside_to_csv.py) and of the totals loader of visualize_totals.py. *)
(*                                                                         *)
(* A cell text is a sequence of characters (one-character strings; the     *)
(* non-ASCII characters are named tokens).  A number is a fixed-point      *)
(* decimal: the integer n stands for n / Scale.  A date is its day number  *)
(* within the month; NaT is the unparseable date.                          *)
(*                                                                         *)
(* Three programs are modelled, each with its own specification:           *)
(*   Spec       build_outputs() of either scraper (variant "btc" / "eth")  *)
(*   SpecClean  _clean_num applied to one cell text                        *)
(*   SpecViz    load_totals applied to one totals file                     *)
(***************************************************************************)
EXTENDS Integers, Sequences, FiniteSets, TLC

VARIABLES
    variant,     \* which scraper runs: "btc" or "eth"
    pc,          \* position of the running program
    err,         \* the exception that ended the run and the step that raised it
    seen,        \* _pick_main_daily_table: the candidates iterated so far
    nSeen,       \* how many candidates the selector has iterated
    nQual,       \* how many of the iterated candidates had a date column
    best,        \* _pick_main_daily_table: best
    best_score,  \* _pick_main_daily_table: best_score
    bestIdx,     \* document position of best (0 while best is None)
    raw,         \* build_outputs: raw
    wide,        \* build_outputs: wide as returned by _tidy_wide
    filled,      \* build_outputs: wide as returned by _force_daily_zero_fill
    long_,       \* build_outputs: long_
    totals,      \* build_outputs: totals
    cell,        \* the argument of _clean_num
    cleaned,     \* the value _clean_num returned
    csv,         \* the totals file load_totals reads
    loaded       \* the frame load_totals returned

vars == <<variant, pc, err, seen, nSeen, nQual, best, best_score, bestIdx, raw, wide,
          filled, long_, totals, cell, cleaned, csv, loaded>>

pipeVars == <<variant, seen, nSeen, nQual, best, best_score, bestIdx, raw, wide,
              filled, long_, totals>>
cleanVars == <<cell, cleaned>>
vizVars == <<csv, loaded>>

(***************************************************************************)
(* Bounds of the model.                                                    *)
(***************************************************************************)
MaxTables == 2      \* candidate tables in one document
MaxLen == 3         \* characters of a cell text given to _clean_num alone
MaxFileRows == 3    \* rows of a totals file

\* A number n of the model stands for n / Scale.
Scale == 10 ^ (MaxLen + 1)

None == [none |-> TRUE]
NoErr == [at |-> "", what |-> ""]
NaT == 0

(***************************************************************************)
(* Characters and strings.                                                 *)
(***************************************************************************)
Space == " "
NBSP == "nbsp"          \* U+00A0
THIN == "thin"          \* U+2009
ENDASH == "en-dash"     \* U+2013
EMDASH == "em-dash"     \* U+2014
UMINUS == "u-minus"     \* U+2212
\* pandas' missing cell (NaN / None)
Missing == <<"NaN">>

DigitVal ==
    [c \in {"0", "1", "2", "3", "4", "5", "6", "7", "8", "9"} |->
        CASE c = "0" -> 0 [] c = "1" -> 1 [] c = "2" -> 2 [] c = "3" -> 3
          [] c = "4" -> 4 [] c = "5" -> 5 [] c = "6" -> 6 [] c = "7" -> 7
          [] c = "8" -> 8 [] c = "9" -> 9]
Digits == DOMAIN DigitVal

\* The characters str.strip() and float() treat as white space.
Whitespace == {Space, NBSP, THIN}

Last(s) == s[Len(s)]

SetMin(S) == CHOOSE x \in S : \A y \in S : x <= y
SetMax(S) == CHOOSE x \in S : \A y \in S : x >= y

\* str.strip(): leading and trailing white space removed.
Strip(s) ==
    LET keep == {i \in DOMAIN s : s[i] \notin Whitespace}
    IN IF keep = {} THEN <<>> ELSE SubSeq(s, SetMin(keep), SetMax(keep))

\* s.replace(c, ""): every occurrence of c removed.
Remove(s, c) == SelectSeq(s, LAMBDA ch : ch # c)

\* s.replace(c, d) for single characters.
Replace(s, c, d) == [i \in DOMAIN s |-> IF s[i] = c THEN d ELSE s[i]]

RECURSIVE DigitsValue(_)
DigitsValue(ds) ==
    IF ds = <<>> THEN 0
    ELSE 10 * DigitsValue(SubSeq(ds, 1, Len(ds) - 1)) + DigitVal[Last(ds)]

\* The unsigned decimal literals float() accepts over this alphabet:
\* digits with at most one point and at least one digit.
IsUnsignedFloat(u) ==
    /\ \A i \in DOMAIN u : u[i] \in Digits \cup {"."}
    /\ Cardinality({i \in DOMAIN u : u[i] = "."}) <= 1
    /\ \E i \in DOMAIN u : u[i] \in Digits

UnsignedValue(u) ==
    LET dots == {i \in DOMAIN u : u[i] = "."}
        p == IF dots = {} THEN Len(u) + 1 ELSE SetMin(dots)
        ip == SubSeq(u, 1, p - 1)
        fp == SubSeq(u, p + 1, Len(u))
        fk == SubSeq(fp, 1, IF Len(fp) > MaxLen + 1 THEN MaxLen + 1 ELSE Len(fp))
    IN DigitsValue(ip) * Scale + DigitsValue(fk) * 10 ^ (MaxLen + 1 - Len(fk))

\* float(s): white space around the literal is ignored, an optional sign, then
\* an unsigned literal.  The result is <<TRUE, value>>, or <<FALSE, 0>> where
\* float raises ValueError.
Float(s) ==
    LET t == Strip(s)
        signed == Len(t) > 0 /\ t[1] \in {"-", "+"}
        u == IF signed THEN Tail(t) ELSE t
    IN IF IsUnsignedFloat(u)
       THEN <<TRUE, IF signed /\ t[1] = "-" THEN 0 - UnsignedValue(u)
                    ELSE UnsignedValue(u)>>
       ELSE <<FALSE, 0>>

(***************************************************************************)
(* _clean_num                                                              *)
(***************************************************************************)
\* Faulty variant of CleanText: the thousands separator is kept.
CleanText_KeepComma(x) == Replace(Remove(Strip(x), THIN), NBSP, Space)

\* The text _clean_num works on: stripped, commas and thin spaces removed,
\* non-breaking spaces turned into plain spaces.
CleanText(x) == Replace(Remove(Remove(Strip(x), ","), THIN), NBSP, Space)

\* The accounting negative: "(12.3)" becomes "-12.3".
Unparen(s) ==
    IF Len(s) > 0 /\ s[1] = "(" /\ Last(s) = ")"
    THEN <<"-">> \o SubSeq(s, 2, Len(s) - 1)
    ELSE s

ZeroTexts == {<<>>, <<"-">>, <<ENDASH>>, <<EMDASH>>}

CleanNum(x) ==
    IF x = Missing THEN 0
    ELSE LET s == CleanText(x)
         IN IF s \in ZeroTexts THEN 0
            ELSE LET f == Float(Unparen(s))
                 IN IF f[1] THEN f[2] ELSE 0

(***************************************************************************)
(* Tables.  A raw table (a DataFrame read from one <table>) is             *)
(* [cols |-> headers, rows |-> rows], a row holding one cell text per      *)
(* column.  Headers are unique and already normalised by _norm_cols.       *)
(***************************************************************************)
\* str.lower() on the headers of the model.
Lower(h) ==
    CASE h = "Date" -> "date"
      [] h = "Day" -> "day"
      [] h = "Total" -> "total"
      [] h = "TOTAL" -> "total"
      [] h = "Average" -> "average"
      [] h = "ETH" -> "eth"
      [] h = "A" -> "a"
      [] h = "B" -> "b"
      [] OTHER -> h

EXCLUDE_COLS_BTC ==
    {"date", "total", "btc", "eth", "average", "maximum", "minimum"}

EXCLUDE_COLS_ETH ==
    {"date", "total", "eth", "average", "maximum", "minimum", "cumulative",
     "cumulative_usd_millions"}

\* pd.to_datetime(..., dayfirst=True, errors="coerce") on one cell: the date
\* texts of the model are "<day> Jan" (a day digit and the token "Jan"); any
\* other text is coerced to NaT.
ToDatetime(x) ==
    IF x # Missing /\ Len(x) = 2 /\ x[2] = "Jan" /\ x[1] \in Digits \ {"0"}
    THEN DigitVal[x[1]]
    ELSE NaT

\* The first index of `name` among cols, 0 when absent.
ColIndex(cols, name) ==
    LET at == {i \in DOMAIN cols : cols[i] = name}
    IN IF at = {} THEN 0 ELSE SetMin(at)

\* How many cells of column i parse as a date.
DateCount(df, i) ==
    Cardinality({r \in DOMAIN df.rows : ToDatetime(df.rows[r][i]) # NaT})

\* How many cells of column i clean to a non-zero number.
NonZeroCount(df, i) ==
    Cardinality({r \in DOMAIN df.rows : CleanNum(df.rows[r][i]) # 0})

\* Percentages standing for the ratios 0.6 and 0.2 of the heuristics.
DateRatioPct == 60
NumericRatioPct == 20

\* _find_date_col: the index of the date column, 0 for None.  A header equal
\* to "date" ignoring case wins; else the first column with the highest share
\* of date cells, if that share exceeds 0.6 (the mean of no rows is NaN, which
\* exceeds nothing).
FindDateCol(df) ==
    LET named == {i \in DOMAIN df.cols : Lower(df.cols[i]) = "date"}
        n == Len(df.rows)
        top == SetMax({DateCount(df, i) : i \in DOMAIN df.cols})
        first == SetMin({i \in DOMAIN df.cols : DateCount(df, i) = top})
    IN IF named # {} THEN SetMin(named)
       ELSE IF n > 0 /\ top > 0 /\ top * 100 > DateRatioPct * n THEN first
       ELSE 0

\* _score_table (ETH): rows, and the columns not headed "date" whose cleaned
\* cells are non-zero in more than 20% of the rows.
ScoreTable(df) ==
    LET n == Len(df.rows)
        numeric == {i \in DOMAIN df.cols :
                      /\ Lower(df.cols[i]) # "date"
                      /\ n > 0
                      /\ NonZeroCount(df, i) * 100 > NumericRatioPct * n}
    IN <<n, Cardinality(numeric)>>

\* The score of the BTC selector: rows, and the columns other than "Date".
ScoreBtc(df) ==
    <<Len(df.rows), Cardinality({i \in DOMAIN df.cols : df.cols[i] # "Date"})>>

\* Whether the selector of the variant considers the candidate at all.
HasDateCol(v, df) ==
    IF v = "btc" THEN ColIndex(df.cols, "Date") # 0 ELSE FindDateCol(df) # 0

Score(v, df) == IF v = "btc" THEN ScoreBtc(df) ELSE ScoreTable(df)

\* Faulty variant of TupleGreater: a later candidate with an equal score wins.
TupleGreater_OrEqual(a, b) == a[1] > b[1] \/ (a[1] = b[1] /\ a[2] >= b[2])

\* Python's a > b on pairs.
TupleGreater(a, b) == a[1] > b[1] \/ (a[1] = b[1] /\ a[2] > b[2])

(***************************************************************************)
(* _tidy_wide.  A tidy frame is [cols |-> names of the value columns,      *)
(* rows |-> rows], a row being [date |-> day, vals |-> one number per      *)
(* value column].  A function that can raise returns [ok |-> TRUE, df]     *)
(* or [ok |-> FALSE, err].                                                 *)
(***************************************************************************)
Ok(df) == [ok |-> TRUE, df |-> df]
Raise(e) == [ok |-> FALSE, err |-> e]

RECURSIVE SumSeq(_)
SumSeq(s) == IF s = <<>> THEN 0 ELSE Head(s) + SumSeq(Tail(s))

\* The indices of s, ascending, that lie in S.
RECURSIVE Ascending(_)
Ascending(S) ==
    IF S = {} THEN <<>> ELSE <<SetMin(S)>> \o Ascending(S \ {SetMin(S)})

\* The frame after the date column dc is parsed into "date", the rows without
\* a date are dropped, the raw date column is dropped and every other cell is
\* cleaned.
ParseRows(df, dc) ==
    LET valIdx == Ascending(DOMAIN df.cols \ {dc})
        kept == SelectSeq(df.rows, LAMBDA r : ToDatetime(r[dc]) # NaT)
    IN [cols |-> [k \in DOMAIN valIdx |-> df.cols[valIdx[k]]],
        rows |-> [r \in DOMAIN kept |->
                    [date |-> ToDatetime(kept[r][dc]),
                     vals |-> [k \in DOMAIN valIdx |->
                                 CleanNum(kept[r][valIdx[k]])]]]]

\* df[sum_cols].sum(axis=1) for one row.
RowSum(row, sumIdx) == SumSeq([k \in DOMAIN sumIdx |-> row.vals[sumIdx[k]]])

\* df["Total"] = df[sum_cols].sum(axis=1): assigned in place where a column
\* "Total" exists, appended as the last column otherwise.
SetTotal(df, sumIdx) ==
    LET at == ColIndex(df.cols, "Total")
    IN IF at # 0
       THEN [cols |-> df.cols,
             rows |-> [r \in DOMAIN df.rows |->
                         [df.rows[r] EXCEPT !.vals[at] = RowSum(df.rows[r], sumIdx)]]]
       ELSE [cols |-> Append(df.cols, "Total"),
             rows |-> [r \in DOMAIN df.rows |->
                         [df.rows[r] EXCEPT
                            !.vals = Append(@, RowSum(df.rows[r], sumIdx))]]]

\* sort_values on a short frame: an insertion sort, rows with equal keys keep
\* their order.
RECURSIVE InsertByDate(_, _)
InsertByDate(sorted, row) ==
    IF sorted = <<>> THEN <<row>>
    ELSE IF Last(sorted).date <= row.date THEN Append(sorted, row)
    ELSE Append(InsertByDate(SubSeq(sorted, 1, Len(sorted) - 1), row), Last(sorted))

RECURSIVE SortRows(_)
SortRows(rows) ==
    IF rows = <<>> THEN <<>>
    ELSE InsertByDate(SortRows(SubSeq(rows, 1, Len(rows) - 1)), Last(rows))

\* df.sort_values("date").reset_index(drop=True)
SortByDate(df) == [cols |-> df.cols, rows |-> SortRows(df.rows)]

\* Faulty variant of FundColsEth: the site's total column is summed as well.
FundColsEth_WithTotal(cols) ==
    Ascending({k \in DOMAIN cols :
                 Lower(cols[k]) \notin EXCLUDE_COLS_ETH \ {"total"}})

\* fund_cols of the ETH _tidy_wide.
FundColsEth(cols) ==
    Ascending({k \in DOMAIN cols : Lower(cols[k]) \notin EXCLUDE_COLS_ETH})

\* sum_cols of the BTC _tidy_wide.
SumColsBtc(cols) ==
    Ascending({k \in DOMAIN cols : Lower(cols[k]) \notin EXCLUDE_COLS_BTC})

\* _tidy_wide of eth_farside_to_csv.py.  A raw column literally named "date"
\* is overwritten by the parsed dates and then dropped as the raw date
\* column, so sort_values("date") raises KeyError.
TidyWideEth(df) ==
    LET dc == FindDateCol(df)
        parsed == ParseRows(df, dc)
        fund == FundColsEth(parsed.cols)
    IN IF dc = 0 THEN Raise("RuntimeError: no date column")
       ELSE IF fund = <<>> THEN Raise("RuntimeError: no fund columns")
       ELSE IF df.cols[dc] = "date" THEN Raise("KeyError: date")
       ELSE Ok(SortByDate(SetTotal(parsed, fund)))

\* _tidy_wide of btc_farside_to_csv.py: a column named "total" in any case is
\* taken as the Total (renamed if need be); only without one is the Total
\* summed.
TidyWideBtc(df) ==
    LET dc == ColIndex(df.cols, "Date")
        parsed == ParseRows(df, dc)
        named == {k \in DOMAIN parsed.cols : Lower(parsed.cols[k]) = "total"}
    IN IF named = {}
       THEN Ok(SortByDate(SetTotal(parsed, SumColsBtc(parsed.cols))))
       ELSE Ok(SortByDate([parsed EXCEPT !.cols[SetMin(named)] = "Total"]))

TidyWide(v, df) == IF v = "btc" THEN TidyWideBtc(df) ELSE TidyWideEth(df)

(***************************************************************************)
(* _force_daily_zero_fill                                                  *)
(***************************************************************************)
DatesOf(df) == {df.rows[r].date : r \in DOMAIN df.rows}

ZeroRow(df, d) == [date |-> d, vals |-> [k \in DOMAIN df.cols |-> 0]]

\* The rows of df dated d, in order.
RowsOn(df, d) == SelectSeq(df.rows, LAMBDA r : r.date = d)

RECURSIVE Concat(_)
Concat(ss) == IF ss = <<>> THEN <<>> ELSE Head(ss) \o Concat(Tail(ss))

\* Faulty variant of ForceDailyZeroFill: duplicate dates are not refused and
\* every row of a repeated date is carried over.
ForceDailyZeroFill_KeepDuplicates(df) ==
    IF df.rows = <<>> THEN Raise("ValueError: NaT")
    ELSE LET lo == SetMin(DatesOf(df))
             hi == SetMax(DatesOf(df))
         IN Ok([cols |-> df.cols,
                rows |-> Concat([i \in 1 .. (hi - lo + 1) |->
                           IF RowsOn(df, lo + i - 1) = <<>>
                           THEN <<ZeroRow(df, lo + i - 1)>>
                           ELSE RowsOn(df, lo + i - 1)])])

\* pd.date_range(min, max, freq="D") raises ValueError on an empty frame
\* (min and max are NaT); reindex raises ValueError on an index with
\* duplicate dates; else one row per day of [min, max], absent days filled
\* with zeros.
ForceDailyZeroFill(df) ==
    IF df.rows = <<>> THEN Raise("ValueError: NaT")
    ELSE IF Cardinality(DatesOf(df)) < Len(df.rows)
    THEN Raise("ValueError: duplicate labels")
    ELSE LET lo == SetMin(DatesOf(df))
             hi == SetMax(DatesOf(df))
         IN Ok([cols |-> df.cols,
                rows |-> [i \in 1 .. (hi - lo + 1) |->
                            IF RowsOn(df, lo + i - 1) = <<>>
                            THEN ZeroRow(df, lo + i - 1)
                            ELSE RowsOn(df, lo + i - 1)[1]]])

(***************************************************************************)
(* build_outputs: the totals and long views.                               *)
(***************************************************************************)
\* Faulty variant of Cumsum: the running total excludes the current row.
Cumsum_Exclusive(s) == [i \in DOMAIN s |-> SumSeq(SubSeq(s, 1, i - 1))]

\* Series.cumsum()
RECURSIVE Cumsum(_)
Cumsum(s) ==
    IF s = <<>> THEN <<>>
    ELSE LET before == Cumsum(SubSeq(s, 1, Len(s) - 1))
         IN Append(before, (IF before = <<>> THEN 0 ELSE Last(before)) + Last(s))

\* totals = wide[["date", "Total"]] renamed, plus the cumulative column.
BuildTotals(df) ==
    LET at == ColIndex(df.cols, "Total")
        tot == [r \in DOMAIN df.rows |-> df.rows[r].vals[at]]
        cum == Cumsum(tot)
    IN [rows |-> [r \in DOMAIN df.rows |->
                    [date |-> df.rows[r].date,
                     total_usd_millions |-> tot[r],
                     cumulative_usd_millions |-> cum[r]]]]

\* melt_cols: the columns of wide other than "date" and "Total".
MeltCols(df) == Ascending({k \in DOMAIN df.cols : df.cols[k] # "Total"})

\* Faulty variant of Melt: the rows are emitted date by date.
Melt_DateMajor(df) ==
    LET mc == MeltCols(df)
        ncol == Len(mc)
    IN [rows |-> [n \in 1 .. (Len(df.rows) * ncol) |->
                    LET r == ((n - 1) \div ncol) + 1
                        c == mc[((n - 1) % ncol) + 1]
                    IN [date |-> df.rows[r].date,
                        fund |-> df.cols[c],
                        flow_usd_millions |-> df.rows[r].vals[c]]]]

\* DataFrame.melt: the value columns are stacked one after the other, each in
\* row order.
Melt(df) ==
    LET mc == MeltCols(df)
        nrow == Len(df.rows)
    IN [rows |-> [n \in 1 .. (nrow * Len(mc)) |->
                    LET c == mc[((n - 1) \div nrow) + 1]
                        r == ((n - 1) % nrow) + 1
                    IN [date |-> df.rows[r].date,
                        fund |-> df.cols[c],
                        flow_usd_millions |-> df.rows[r].vals[c]]]]

(***************************************************************************)
(* The candidate tables a document may hold.                               *)
(***************************************************************************)
\* Header rows, with the position of the column that holds the date texts.
HeaderRows ==
    {[cols |-> <<"Date", "A", "B">>, datePos |-> 1],
     [cols |-> <<"Date", "A", "ETH", "B">>, datePos |-> 1],
     [cols |-> <<"Date", "A", "Total">>, datePos |-> 1],
     [cols |-> <<"A", "Date", "TOTAL">>, datePos |-> 2],
     [cols |-> <<"Date", "Average">>, datePos |-> 1],
     [cols |-> <<"Day", "A">>, datePos |-> 1],
     [cols |-> <<"date", "A">>, datePos |-> 1]}

PlainHeader == [cols |-> <<"Date", "A", "B">>, datePos |-> 1]
DayHeader == [cols |-> <<"Day", "A">>, datePos |-> 1]

D1 == <<"1", "Jan">>
D2 == <<"2", "Jan">>
D3 == <<"3", "Jan">>
NA == <<"n", "/", "a">>

\* Date columns: empty, sorted, unsorted, with a gap, with a repeated date,
\* with footer rows, and with exactly 60% date cells.
DateColumns ==
    {<<>>, <<D1>>, <<D1, D3>>, <<D3, D1>>, <<D2, D2>>, <<NA>>, <<D1, NA>>,
     <<D2, D1, NA>>, <<D3, D2, D1, NA, NA>>, <<D2, D3, NA, D1, D2>>}

UsualDates == <<D3, D1>>
FiveDates == <<D3, D2, D1, NA, NA>>

MixedCells ==
    <<<<"5">>, <<"(", "2", ")">>, <<"1", ".", "5">>, <<"1", ",", "0", "0", "0">>>>

Fills == {"mixed", "zero", "sparse", "firstzero"}

\* The text of the j-th value cell of row i under a fill.
FillCell(f, i, j) ==
    CASE f = "mixed" -> MixedCells[((i + 2 * j) % Len(MixedCells)) + 1]
      [] f = "zero" -> <<"-">>
      [] f = "sparse" -> IF i = 1 THEN <<"7">> ELSE NA
      [] f = "firstzero" ->
            IF j = 1 THEN Missing ELSE MixedCells[((i + 2 * j) % Len(MixedCells)) + 1]

MakeTable(h, dates, f) ==
    [cols |-> h.cols,
     rows |-> [i \in DOMAIN dates |->
                 [c \in DOMAIN h.cols |->
                    IF c = h.datePos THEN dates[i]
                    ELSE FillCell(f, i, IF c > h.datePos THEN c - 1 ELSE c)]]]

Tables ==
    {MakeTable(h, UsualDates, f) : h \in HeaderRows, f \in Fills}
    \cup {MakeTable(h, d, "mixed") : h \in {PlainHeader, DayHeader}, d \in DateColumns}
    \cup {MakeTable(h, FiveDates, "sparse") : h \in {PlainHeader, DayHeader}}

(***************************************************************************)
(* Spec: build_outputs() of either scraper.                                *)
(***************************************************************************)
\* What the selector's caller needs to know of an iterated candidate.
Profile(df) ==
    [rows |-> Len(df.rows),
     cols |-> Cardinality({i \in DOMAIN df.cols : df.cols[i] # "Date"}),
     numeric |-> ScoreTable(df)[2],
     dateHeader |-> ColIndex(df.cols, "Date") # 0,
     dateCol |-> FindDateCol(df) # 0]

Init ==
    /\ variant \in {"btc", "eth"}
    /\ pc = "pick"
    /\ err = NoErr
    /\ seen = <<>>
    /\ nSeen = 0
    /\ nQual = 0
    /\ best = None
    /\ best_score = <<-1, -1>>
    /\ bestIdx = 0
    /\ raw = None
    /\ wide = None
    /\ filled = None
    /\ long_ = None
    /\ totals = None
    /\ cell = <<>>
    /\ cleaned = 0
    /\ csv = None
    /\ loaded = None

\* One iteration of the loop of _pick_main_daily_table over the candidates.
PickIterate ==
    /\ pc = "pick"
    /\ Len(seen) < MaxTables
    /\ \E df \in Tables :
          /\ seen' = Append(seen, Profile(df))
          /\ nSeen' = nSeen + 1
          /\ IF HasDateCol(variant, df)
             THEN /\ nQual' = nQual + 1
                  /\ IF TupleGreater(Score(variant, df), best_score)
                     THEN /\ best' = df
                          /\ best_score' = Score(variant, df)
                          /\ bestIdx' = Len(seen) + 1
                     ELSE UNCHANGED <<best, best_score, bestIdx>>
             ELSE UNCHANGED <<nQual, best, best_score, bestIdx>>
    /\ UNCHANGED <<variant, pc, err, raw, wide, filled, long_, totals,
                   cleanVars, vizVars>>

\* Faulty variant of TableMissing: the missing table is not detected.
TableMissing_Never(v, df) == FALSE

\* The check of _load_raw_table on what the selector returned.
TableMissing(v, df) ==
    df = None \/ (v = "btc" /\ ColIndex(df.cols, "Date") = 0)

\* The loop ends and _load_raw_table returns the table or raises.
LoadRawTable ==
    /\ pc = "pick"
    /\ IF TableMissing(variant, best)
       THEN /\ pc' = "failed"
            /\ err' = [at |-> "load", what |-> "RuntimeError: table not found"]
            /\ raw' = raw
       ELSE /\ pc' = "tidy"
            /\ err' = err
            /\ raw' = best
    /\ seen' = <<>>
    /\ UNCHANGED <<variant, nSeen, nQual, best, best_score, bestIdx, wide, filled,
                   long_, totals, cleanVars, vizVars>>

\* wide = _tidy_wide(raw)
TidyWideStep ==
    /\ pc = "tidy"
    /\ LET r == IF raw = None THEN Raise("AttributeError") ELSE TidyWide(variant, raw)
       IN IF r.ok
          THEN /\ wide' = r.df
               /\ pc' = "fill"
               /\ err' = err
          ELSE /\ wide' = wide
               /\ pc' = "failed"
               /\ err' = [at |-> "tidy", what |-> r.err]
    /\ UNCHANGED <<variant, seen, nSeen, nQual, best, best_score, bestIdx, raw,
                   filled, long_, totals, cleanVars, vizVars>>

\* wide = _force_daily_zero_fill(wide)
ZeroFillStep ==
    /\ pc = "fill"
    /\ LET r == ForceDailyZeroFill(wide)
       IN IF r.ok
          THEN /\ filled' = r.df
               /\ pc' = "build"
               /\ err' = err
          ELSE /\ filled' = filled
               /\ pc' = "failed"
               /\ err' = [at |-> "fill", what |-> r.err]
    /\ UNCHANGED <<variant, seen, nSeen, nQual, best, best_score, bestIdx, raw, wide,
                   long_, totals, cleanVars, vizVars>>

\* The totals and long views are derived, and build_outputs returns.
BuildViews ==
    /\ pc = "build"
    /\ totals' = BuildTotals(filled)
    /\ long_' = Melt(filled)
    /\ pc' = "done"
    /\ UNCHANGED <<variant, err, seen, nSeen, nQual, best, best_score, bestIdx, raw,
                   wide, filled, cleanVars, vizVars>>

Next ==
    \/ PickIterate
    \/ LoadRawTable
    \/ TidyWideStep
    \/ ZeroFillStep
    \/ BuildViews

Spec == Init /\ [][Next]_vars

(***************************************************************************)
(* SpecClean: _clean_num applied to one cell text.                         *)
(***************************************************************************)
CleanChars ==
    {"1", "5", ".", ",", "(", ")", "-", "*", "x", Space, NBSP, THIN, ENDASH,
     EMDASH, UMINUS}

RECURSIVE TextsUpTo(_)
TextsUpTo(n) ==
    IF n = 0 THEN {<<>>}
    ELSE LET shorter == TextsUpTo(n - 1)
         IN shorter \cup {Append(t, c) : t \in shorter, c \in CleanChars}

CellTexts == TextsUpTo(MaxLen) \cup {Missing}

InitClean ==
    /\ pc = "clean"
    /\ err = NoErr
    /\ cell \in CellTexts
    /\ cleaned = 0
    /\ variant = "none"
    /\ seen = <<>>
    /\ nSeen = 0
    /\ nQual = 0
    /\ best = None
    /\ best_score = <<-1, -1>>
    /\ bestIdx = 0
    /\ raw = None
    /\ wide = None
    /\ filled = None
    /\ long_ = None
    /\ totals = None
    /\ csv = None
    /\ loaded = None

\* cleaned = _clean_num(cell); no path of _clean_num raises.
CleanCell ==
    /\ pc = "clean"
    /\ cleaned' = CleanNum(cell)
    /\ pc' = "done"
    /\ UNCHANGED <<err, cell, pipeVars, vizVars>>

NextClean == CleanCell

SpecClean == InitClean /\ [][NextClean]_vars

(***************************************************************************)
(* SpecViz: load_totals of visualize_totals.py applied to one totals file. *)
(* A file is [dateCol, totalCol, cumCol, rows]: whether a column named     *)
(* "date" (in any case) exists, the name of the totals column ("" when     *)
(* neither name is there), whether a column named exactly                  *)
(* "cumulative_usd_millions" exists (cum is then what it holds in every    *)
(* row), and the rows in file order.                                       *)
(***************************************************************************)
Iso(d) == <<"2024-01-0", d>>

\* pd.to_datetime(..., format="%Y-%m-%d", errors="coerce") on one cell.  The
\* fallback of load_totals re-parses the already coerced column, which leaves
\* every NaT in place.
ParseIsoDate(x) ==
    IF Len(x) = 2 /\ x[1] = "2024-01-0" /\ x[2] \in Digits \ {"0"}
    THEN DigitVal[x[2]]
    ELSE NaT

FileDates == {Iso("1"), Iso("2"), Iso("3"), D1}
FileTotals == {-1, 2}
\* The values a file's own cumulative column may hold.
FileCums == {0, 7}

RECURSIVE SeqsUpTo(_, _)
SeqsUpTo(S, n) ==
    IF n = 0 THEN {<<>>}
    ELSE LET shorter == SeqsUpTo(S, n - 1)
         IN shorter \cup {Append(t, x) : t \in shorter, x \in S}

Files ==
    [dateCol : BOOLEAN,
     totalCol : {"total_usd_millions", "Total", ""},
     cumCol : BOOLEAN,
     rows : SeqsUpTo([date : FileDates, total : FileTotals], MaxFileRows),
     cum : FileCums]

\* sort_values("date"): ascending, NaT last, rows with equal keys in order.
DateKey(d) == IF d = NaT THEN 32 ELSE d

RECURSIVE InsertByKey(_, _)
InsertByKey(sorted, row) ==
    IF sorted = <<>> THEN <<row>>
    ELSE IF DateKey(Last(sorted).date) <= DateKey(row.date) THEN Append(sorted, row)
    ELSE Append(InsertByKey(SubSeq(sorted, 1, Len(sorted) - 1), row), Last(sorted))

RECURSIVE SortTotals(_)
SortTotals(rows) ==
    IF rows = <<>> THEN <<>>
    ELSE InsertByKey(SortTotals(SubSeq(rows, 1, Len(rows) - 1)), Last(rows))

\* load_totals: the cumulative column, when the file has none, is the running
\* sum in file order; the rows are sorted by date afterwards.
LoadTotalsFrame(f) ==
    LET tot == [r \in DOMAIN f.rows |-> f.rows[r].total]
        cum == IF f.cumCol THEN [r \in DOMAIN f.rows |-> f.cum] ELSE Cumsum(tot)
    IN IF ~f.dateCol THEN Raise("ValueError: date column not found")
       ELSE IF f.totalCol = "" THEN Raise("ValueError: total column not found")
       ELSE Ok([rows |-> SortTotals([r \in DOMAIN f.rows |->
                            [date |-> ParseIsoDate(f.rows[r].date),
                             total_usd_millions |-> tot[r],
                             cumulative_usd_millions |-> cum[r]]])])

InitViz ==
    /\ pc = "load_totals"
    /\ err = NoErr
    /\ csv \in Files
    /\ loaded = None
    /\ variant = "none"
    /\ seen = <<>>
    /\ nSeen = 0
    /\ nQual = 0
    /\ best = None
    /\ best_score = <<-1, -1>>
    /\ bestIdx = 0
    /\ raw = None
    /\ wide = None
    /\ filled = None
    /\ long_ = None
    /\ totals = None
    /\ cell = <<>>
    /\ cleaned = 0

\* df = load_totals(csv_path)
LoadTotals ==
    /\ pc = "load_totals"
    /\ LET r == LoadTotalsFrame(csv)
       IN IF r.ok
          THEN /\ loaded' = r.df
               /\ pc' = "done"
               /\ err' = err
          ELSE /\ loaded' = loaded
               /\ pc' = "failed"
               /\ err' = [at |-> "load_totals", what |-> r.err]
    /\ UNCHANGED <<csv, pipeVars, cleanVars>>

NextViz == LoadTotals

SpecViz == InitViz /\ [][NextViz]_vars

(***************************************************************************)
(* Properties of build_outputs (checked under Spec).                       *)
(***************************************************************************)
NoViews == wide = None /\ filled = None /\ long_ = None /\ totals = None

RowsDated(df, d) == {r \in DOMAIN df.rows : df.rows[r].date = d}

IsAscending(rows) ==
    \A r \in 1 .. (Len(rows) - 1) : rows[r].date < rows[r + 1].date

\* C1: whenever _force_daily_zero_fill returns a result, the result has
\* (max_date - min_date).days + 1 rows, every date of [min_date, max_date]
\* appears in exactly one row, and the rows are in ascending date order.
C1_DenseCalendar ==
    pc \in {"build", "done"} =>
        LET lo == SetMin(DatesOf(wide))
            hi == SetMax(DatesOf(wide))
        IN /\ Len(filled.rows) = hi - lo + 1
           /\ \A d \in lo .. hi : Cardinality(RowsDated(filled, d)) = 1
           /\ IsAscending(filled.rows)

\* C1 witness: the densifier has returned a calendar in which it filled a gap
\* between two parsed dates.
C1_Witness ==
    /\ pc = "build"
    /\ Len(wide.rows) >= 2
    /\ Len(filled.rows) > Len(wide.rows)

\* The score and the qualification the selector of the variant uses, read off
\* the profile of an iterated candidate.
ProfileQualifies(v, p) == IF v = "btc" THEN p.dateHeader ELSE p.dateCol
ProfileScore(v, p) == IF v = "btc" THEN <<p.rows, p.cols>> ELSE <<p.rows, p.numeric>>

LexLess(a, b) == a[1] < b[1] \/ (a[1] = b[1] /\ a[2] < b[2])

\* The candidate at position k is the first of the maximal ones among the
\* iterated candidates that qualify.
FirstMaximal(k, qual, score) ==
    /\ k \in DOMAIN seen
    /\ qual[k]
    /\ \A j \in DOMAIN seen : qual[j] =>
          /\ ~LexLess(score[k], score[j])
          /\ j < k => LexLess(score[j], score[k])

\* C2 as stated: after any sequence of candidates the selector holds the first
\* qualifying candidate whose score (row_count, number of non-date columns
\* non-zero in more than 20% of the rows) is lexicographically maximal, a
\* candidate qualifying when it has a date-bearing column.
C2_Original ==
    pc = "pick" =>
        LET qual == [j \in DOMAIN seen |-> seen[j].dateCol]
            score == [j \in DOMAIN seen |-> <<seen[j].rows, seen[j].numeric>>]
        IN IF \E j \in DOMAIN seen : qual[j]
           THEN best # None /\ FirstMaximal(bestIdx, qual, score)
           ELSE best = None

\* C2 amended: the selector holds the first qualifying candidate of maximal
\* score, where in the ETH scraper a candidate qualifies and is scored as
\* stated (non-date columns being those not headed "date"), and in the BTC
\* scraper a candidate qualifies when it has a column named exactly "Date"
\* and its score is (row_count, number of columns other than "Date").
C2_Selector ==
    pc = "pick" =>
        LET qual == [j \in DOMAIN seen |-> ProfileQualifies(variant, seen[j])]
            score == [j \in DOMAIN seen |-> ProfileScore(variant, seen[j])]
        IN IF \E j \in DOMAIN seen : qual[j]
           THEN /\ best # None
                /\ FirstMaximal(bestIdx, qual, score)
                /\ Profile(best) = seen[bestIdx]
                /\ best_score = score[bestIdx]
           ELSE best = None /\ bestIdx = 0

\* C2 witness: two qualifying candidates of equal score have been iterated and
\* the selector holds the first.
C2_Witness ==
    /\ pc = "pick"
    /\ Len(seen) = 2
    /\ bestIdx = 1
    /\ ProfileQualifies(variant, seen[2])
    /\ ProfileScore(variant, seen[2]) = best_score

\* C3: if no table of the document has a date column, the run fails in
\* _load_raw_table with the table-not-found error; _tidy_wide,
\* _force_daily_zero_fill and the view building are never reached and no view
\* is produced.
C3_TableNotFound ==
    (pc # "pick" /\ nQual = 0) =>
        /\ pc = "failed"
        /\ err = [at |-> "load", what |-> "RuntimeError: table not found"]
        /\ raw = None
        /\ NoViews

\* C3 witness: a document of two tables, neither with a date column, has been
\* refused.
C3_Witness ==
    /\ pc = "failed"
    /\ err.at = "load"
    /\ nSeen = 2
    /\ nQual = 0

\* The rows of the selected table whose date parses, in table order.
Surviving(df, dc) == SelectSeq(df.rows, LAMBDA r : ToDatetime(r[dc]) # NaT)

\* The sum, for one raw row, of the cleaned cells of the columns that are
\* neither the date column nor excluded.
RawFundSum(df, dc, row, excluded) ==
    SumSeq([k \in DOMAIN df.cols |->
              IF k # dc /\ Lower(df.cols[k]) \notin excluded
              THEN CleanNum(row[k]) ELSE 0])

TotalOf(df, r) == df.rows[r].vals[ColIndex(df.cols, "Total")]

\* C4: in the ETH scraper the Total of every parsed row is the sum of the
\* cleaned cells of exactly the columns whose lowercased header is not in the
\* exclusion set, whatever the site's own total column says.
C4_RecomputedTotal ==
    (variant = "eth" /\ wide # None) =>
        LET dc == FindDateCol(raw)
            kept == Surviving(raw, dc)
        IN /\ Len(wide.rows) = Len(kept)
           /\ \A i \in DOMAIN kept :
                 \E r \in DOMAIN wide.rows :
                    /\ wide.rows[r].date = ToDatetime(kept[i][dc])
                    /\ TotalOf(wide, r) = RawFundSum(raw, dc, kept[i], EXCLUDE_COLS_ETH)
           /\ \A r \in DOMAIN wide.rows :
                 \E i \in DOMAIN kept :
                    /\ wide.rows[r].date = ToDatetime(kept[i][dc])
                    /\ TotalOf(wide, r) = RawFundSum(raw, dc, kept[i], EXCLUDE_COLS_ETH)

\* C4 witness: the ETH scraper has tidied a table whose own Total column
\* disagrees with the sum of its fund columns.
C4_Witness ==
    /\ variant = "eth"
    /\ pc = "fill"
    /\ ColIndex(raw.cols, "Total") # 0
    /\ \E i \in DOMAIN raw.rows :
          /\ ToDatetime(raw.rows[i][FindDateCol(raw)]) # NaT
          /\ CleanNum(raw.rows[i][ColIndex(raw.cols, "Total")])
                # RawFundSum(raw, FindDateCol(raw), raw.rows[i], EXCLUDE_COLS_ETH)
          /\ RawFundSum(raw, FindDateCol(raw), raw.rows[i], EXCLUDE_COLS_ETH) # 0

\* Whether the variant computes the Total of the selected table by summation,
\* and the date column it parses.
TotalIsSummed(v, df) ==
    v = "eth" \/ \A k \in DOMAIN df.cols : Lower(df.cols[k]) # "total"
DateColOf(v, df) == IF v = "btc" THEN ColIndex(df.cols, "Date") ELSE FindDateCol(df)
Excluded(v) == IF v = "btc" THEN EXCLUDE_COLS_BTC ELSE EXCLUDE_COLS_ETH

\* C5: whenever the Total is computed by summation and the exclusion filter
\* leaves no column to sum, the run fails with the no-fund-columns error and
\* produces no view.
C5_NoFundColumns ==
    (/\ pc \notin {"pick", "tidy"}
     /\ raw # None
     /\ TotalIsSummed(variant, raw)
     /\ \A k \in DOMAIN raw.cols :
           k = DateColOf(variant, raw) \/ Lower(raw.cols[k]) \in Excluded(variant))
    => /\ pc = "failed"
       /\ err = [at |-> "tidy", what |-> "RuntimeError: no fund columns"]
       /\ NoViews

\* C6: _tidy_wide drops every row whose date fails to parse and returns the
\* others sorted ascending by date; if no row survives, the run fails in
\* _tidy_wide instead of handing an empty series to the densifier.
C6_RowParser ==
    (pc \notin {"pick", "tidy"} /\ raw # None) =>
        LET kept == Surviving(raw, DateColOf(variant, raw))
        IN IF kept = <<>>
           THEN pc = "failed" /\ err.at = "tidy" /\ NoViews
           ELSE wide # None =>
                   /\ Len(wide.rows) = Len(kept)
                   /\ \A r \in 1 .. (Len(wide.rows) - 1) :
                         wide.rows[r].date <= wide.rows[r + 1].date

\* The columns of the dense calendar other than Total, in column order.
FundNames(df) == SelectSeq(df.cols, LAMBDA c : c # "Total")

\* C7 as stated: the long view holds one row per (date, fund) pair, all funds
\* of the first date in column order, then all funds of the second date, and
\* so on in ascending date order.
C7_DateMajor ==
    pc = "done" =>
        LET funds == FundNames(filled)
        IN /\ Len(long_.rows) = Len(filled.rows) * Len(funds)
           /\ \A n \in DOMAIN long_.rows :
                 /\ long_.rows[n].date = filled.rows[((n - 1) \div Len(funds)) + 1].date
                 /\ long_.rows[n].fund = funds[((n - 1) % Len(funds)) + 1]

\* C7 amended: the long view holds exactly one row per (date, fund) pair for
\* every column of the wide view other than date and Total, carrying that
\* cell's value, and its rows are ordered fund-major: all dates of the first
\* fund column in ascending date order, then all dates of the second, and so
\* on in column order.
C7_FundMajor ==
    pc = "done" =>
        LET funds == FundNames(filled)
            pos(n) == ColIndex(filled.cols, long_.rows[n].fund)
        IN /\ Len(long_.rows) = Len(filled.rows) * Len(funds)
           /\ \A r \in DOMAIN filled.rows : \A k \in DOMAIN funds :
                 \E n \in DOMAIN long_.rows :
                    /\ long_.rows[n].date = filled.rows[r].date
                    /\ long_.rows[n].fund = funds[k]
                    /\ long_.rows[n].flow_usd_millions
                          = filled.rows[r].vals[ColIndex(filled.cols, funds[k])]
           /\ \A n \in DOMAIN long_.rows : long_.rows[n].fund # "Total"
           /\ \A n, m \in DOMAIN long_.rows : n < m =>
                 \/ pos(n) < pos(m)
                 \/ pos(n) = pos(m) /\ long_.rows[n].date < long_.rows[m].date

\* C7 witness: a long view of at least two dates and two fund columns.
C7_Witness ==
    /\ pc = "done"
    /\ Len(filled.rows) >= 2
    /\ Len(FundNames(filled)) >= 2
    /\ \E n \in DOMAIN long_.rows : long_.rows[n].flow_usd_millions # 0

\* C9: the totals view is in ascending date order, its total at each date is
\* the wide view's Total of that date, and its cumulative value at the i-th
\* date is the sum of the totals of the first i dates.
C9_Cumulative ==
    pc = "done" =>
        /\ Len(totals.rows) = Len(filled.rows)
        /\ IsAscending(totals.rows)
        /\ \A i \in DOMAIN totals.rows :
              /\ totals.rows[i].date = filled.rows[i].date
              /\ totals.rows[i].total_usd_millions = TotalOf(filled, i)
              /\ totals.rows[i].cumulative_usd_millions
                    = SumSeq([j \in 1 .. i |-> totals.rows[j].total_usd_millions])
        /\ totals.rows[1].cumulative_usd_millions = totals.rows[1].total_usd_millions

\* C9 witness: a totals view of three dates, the middle one zero-filled, with
\* non-zero totals around it.
C9_Witness ==
    /\ pc = "done"
    /\ Len(totals.rows) = 3
    /\ totals.rows[1].total_usd_millions # 0
    /\ totals.rows[2].total_usd_millions = 0
    /\ totals.rows[3].total_usd_millions # 0
    /\ totals.rows[3].cumulative_usd_millions # totals.rows[3].total_usd_millions

(***************************************************************************)
(* Properties of _clean_num (checked under SpecClean).                     *)
(***************************************************************************)
\* s without its trailing run of the character c.
StripTrailing(s, c) ==
    LET keep == {i \in DOMAIN s : s[i] # c}
    IN IF keep = {} THEN <<>> ELSE SubSeq(s, 1, SetMax(keep))

ParseOrZero(s) == IF Float(s)[1] THEN Float(s)[2] ELSE 0

\* The seven rules of the normalizer, in order.  exotic is what rule 2 does
\* with a non-breaking space ("strip" or "space"); rule5 and rule6 say whether
\* the unicode minus is mapped and the trailing footnote markers are stripped.
SevenRules(x, exotic, rule5, rule6) ==
    IF x = Missing THEN 0
    ELSE LET plain == SelectSeq(Strip(x), LAMBDA c : c \notin {",", THIN})
             r2 == IF exotic = "strip" THEN SelectSeq(plain, LAMBDA c : c # NBSP)
                   ELSE [i \in DOMAIN plain |->
                           IF plain[i] = NBSP THEN Space ELSE plain[i]]
             r4 == Unparen(r2)
             r5 == IF rule5
                   THEN [i \in DOMAIN r4 |-> IF r4[i] = UMINUS THEN "-" ELSE r4[i]]
                   ELSE r4
             r6 == IF rule6 THEN StripTrailing(r5, "*") ELSE r5
         IN IF r2 \in {<<>>, <<"-">>, <<ENDASH>>, <<EMDASH>>} THEN 0
            ELSE ParseOrZero(r6)

\* C8 as stated: _clean_num returns what the seven rules give, the unicode
\* minus mapped to the ASCII minus and trailing footnote markers stripped.
C8_Original ==
    pc = "done" => cleaned = SevenRules(cell, "strip", TRUE, TRUE)

\* C8 amended: _clean_num returns what rules 1 to 4 and 7 give (missing -> 0;
\* commas and thin spaces removed, a non-breaking space inside the text turned
\* into a plain space; empty, "-", en-dash, em-dash -> 0; a fully
\* parenthesized value -> its negative; text that does not parse -> 0, never
\* raising).  The unicode minus is not mapped and footnote markers are not
\* stripped: a text holding either yields 0.
C8_Normalizer ==
    pc = "done" =>
        /\ err = NoErr
        /\ cleaned = SevenRules(cell, "space", FALSE, FALSE)
        /\ (\E i \in DOMAIN cell : cell[i] \in {UMINUS, "*"}) => cleaned = 0
        /\ cell = <<"1", ",", "5">> => cleaned = 15 * Scale
        /\ cell = <<"(", "5", ")">> => cleaned = 0 - 5 * Scale

\* C8 witness: a cell with a thousands separator has been cleaned to a
\* non-zero number.
C8_Witness ==
    /\ pc = "done"
    /\ \E i \in DOMAIN cell : cell[i] = ","
    /\ cleaned # 0

(***************************************************************************)
(* Properties of load_totals (checked under SpecViz).                      *)
(***************************************************************************)
\* C10: for a totals file without a cumulative column, load_totals returns the
\* rows sorted ascending by date and the cumulative value of each returned row
\* is the sum of the totals of that row and the rows before it in the returned
\* order, whatever the order of the rows in the file.
C10_LoadTotals ==
    (pc = "done" /\ ~csv.cumCol) =>
        /\ \A i \in 1 .. (Len(loaded.rows) - 1) :
              DateKey(loaded.rows[i].date) <= DateKey(loaded.rows[i + 1].date)
        /\ \A i \in DOMAIN loaded.rows :
              loaded.rows[i].cumulative_usd_millions
                 = SumSeq([j \in 1 .. i |-> loaded.rows[j].total_usd_millions])

====
